---- MODULE Spec2Model ----
(***************************************************************************)
(* MessagePool (rs/replicated_state/src/canister_state/queues/             *)
(* message_pool.rs): a store of canister messages keyed by MessageId, with *)
(* a deadline priority queue, a load shedding priority queue and running   *)
(* memory usage stats.                                                     *)
(***************************************************************************)
EXTENDS Integers, Sequences, FiniteSets, TLC

(***************************************************************************)
(* Bounds of the model.                                                    *)
(***************************************************************************)
\* Bytes of messages a behaviour of Spec inserts (a placeholder counts as one).
MaxBytes == 3
\* The same for a behaviour of SpecWrap, past its initial state.
MaxBytesWrap == 2
\* The same for a behaviour of SpecGet.
MaxBytesGet == 2
\* Bytes that may be inserted after TrimPrefix in a behaviour of SpecTrim.
MaxBytesTrim == 1
\* Message byte sizes are 1..MaxSize.
MaxSize == 2
\* Message deadlines are NO_DEADLINE or 1..MaxDeadline (seconds).
MaxDeadline == 1
\* Width of the u64 word holding a MessageId, scaled down.
WordBits == 6
\* Units of fine time (Time) per second of CoarseTime, scaled down.
TicksPerSec == 2
\* Fine times at which insert_outbound_request is called are 0..MaxNow.
MaxNow == 1

(***************************************************************************)
(* Collaborators from ic_types.                                            *)
(***************************************************************************)
NO_DEADLINE == 0
MAX_RESPONSE_COUNT_BYTES == 1
REQUEST_LIFETIME == 300 * TicksPerSec

\* CoarseTime::floor: whole seconds of a fine time.
CoarseTime_floor(t) == t \div TicksPerSec

\* Option<T>: None, or Some(x) holding x.
None == <<>>

Some(x) == <<x>>

unwrap(o) == o[1]

\* No id and no time, in the record of the last operation.
NoId == 0 - 1

NoTime == 0 - 1

Kinds == {"Request", "Response"}

\* RequestOrResponse: the variant, its deadline and its count_bytes().
Messages == [kind : Kinds, deadline : 0..MaxDeadline, size : 1..MaxSize]

Requests == {m \in Messages : m.kind = "Request"}

Responses == {m \in Messages : m.kind = "Response"}

InsertNows == 0..MaxNow

\* Fine times at which expire_messages is called: around each deadline a
\* message can carry, and from a second before REQUEST_LIFETIME after the
\* first insertion time to a second after REQUEST_LIFETIME after the last.
ExpireNows ==
  {d * TicksPerSec + f : d \in 1..MaxDeadline, f \in {TicksPerSec - 1, TicksPerSec}}
    \cup {REQUEST_LIFETIME + n : n \in (0 - TicksPerSec)..(MaxNow + TicksPerSec)}

(***************************************************************************)
(* MessageId                                                               *)
(***************************************************************************)
Kind_BIT == 1
Context_BIT == 2
Class_BIT == 4
BITMASK_LEN == 3

Pow2(n) == IF n = 0 THEN 1 ELSE 2 ^ n

Kind_Request == 0
Kind_Response == Kind_BIT
Context_Inbound == 0
Context_Outbound == Context_BIT
Class_GuaranteedResponse == 0
Class_BestEffort == Class_BIT

\* Mutant: the generator is not shifted past the flag bits.
MessageId_new_unshifted(kind, context, class, generator) ==
  (kind + context + class + generator) % Pow2(WordBits)

\* kind | context | class | generator << BITMASK_LEN, in a word of WordBits bits:
\* the bits shifted out of the word are lost.
MessageId_new(kind, context, class, generator) ==
  (kind + context + class + generator * Pow2(BITMASK_LEN)) % Pow2(WordBits)

is_response(id) == (id \div Kind_BIT) % 2 = 1

is_outbound(id) == (id \div Context_BIT) % 2 = 1

is_best_effort(id) == (id \div Class_BIT) % 2 = 1

(***************************************************************************)
(* MemoryUsageStats                                                        *)
(***************************************************************************)
MemoryUsageStats_default ==
  [best_effort_message_bytes |-> 0,
   guaranteed_responses_size_bytes |-> 0,
   oversized_guaranteed_requests_extra_bytes |-> 0,
   size_bytes |-> 0]

saturating_sub(a, b) == IF a > b THEN a - b ELSE 0

\* Mutant: the extra bytes start one byte below MAX_RESPONSE_COUNT_BYTES.
request_stats_delta_early(req) ==
  IF req.deadline = NO_DEADLINE
  THEN [best_effort_message_bytes |-> 0,
        guaranteed_responses_size_bytes |-> 0,
        oversized_guaranteed_requests_extra_bytes |->
          saturating_sub(req.size + 1, MAX_RESPONSE_COUNT_BYTES),
        size_bytes |-> req.size]
  ELSE [best_effort_message_bytes |-> req.size,
        guaranteed_responses_size_bytes |-> 0,
        oversized_guaranteed_requests_extra_bytes |-> 0,
        size_bytes |-> req.size]

request_stats_delta(req) ==
  IF req.deadline = NO_DEADLINE
  THEN [best_effort_message_bytes |-> 0,
        guaranteed_responses_size_bytes |-> 0,
        oversized_guaranteed_requests_extra_bytes |->
          saturating_sub(req.size, MAX_RESPONSE_COUNT_BYTES),
        size_bytes |-> req.size]
  ELSE [best_effort_message_bytes |-> req.size,
        guaranteed_responses_size_bytes |-> 0,
        oversized_guaranteed_requests_extra_bytes |-> 0,
        size_bytes |-> req.size]

response_stats_delta(rep) ==
  IF rep.deadline = NO_DEADLINE
  THEN [best_effort_message_bytes |-> 0,
        guaranteed_responses_size_bytes |-> rep.size,
        oversized_guaranteed_requests_extra_bytes |-> 0,
        size_bytes |-> rep.size]
  ELSE [best_effort_message_bytes |-> rep.size,
        guaranteed_responses_size_bytes |-> 0,
        oversized_guaranteed_requests_extra_bytes |-> 0,
        size_bytes |-> rep.size]

stats_delta(msg) ==
  IF msg.kind = "Request" THEN request_stats_delta(msg) ELSE response_stats_delta(msg)

add_assign(lhs, rhs) ==
  [best_effort_message_bytes |->
     lhs.best_effort_message_bytes + rhs.best_effort_message_bytes,
   guaranteed_responses_size_bytes |->
     lhs.guaranteed_responses_size_bytes + rhs.guaranteed_responses_size_bytes,
   oversized_guaranteed_requests_extra_bytes |->
     lhs.oversized_guaranteed_requests_extra_bytes
       + rhs.oversized_guaranteed_requests_extra_bytes,
   size_bytes |-> lhs.size_bytes + rhs.size_bytes]

\* Mutant: guaranteed_responses_size_bytes is reduced by the size_bytes of rhs.
sub_assign_by_size_bytes(lhs, rhs) ==
  [best_effort_message_bytes |->
     lhs.best_effort_message_bytes - rhs.best_effort_message_bytes,
   guaranteed_responses_size_bytes |->
     lhs.guaranteed_responses_size_bytes - rhs.size_bytes,
   oversized_guaranteed_requests_extra_bytes |->
     lhs.oversized_guaranteed_requests_extra_bytes
       - rhs.oversized_guaranteed_requests_extra_bytes,
   size_bytes |-> lhs.size_bytes - rhs.size_bytes]

sub_assign(lhs, rhs) ==
  [best_effort_message_bytes |->
     lhs.best_effort_message_bytes - rhs.best_effort_message_bytes,
   guaranteed_responses_size_bytes |->
     lhs.guaranteed_responses_size_bytes - rhs.guaranteed_responses_size_bytes,
   oversized_guaranteed_requests_extra_bytes |->
     lhs.oversized_guaranteed_requests_extra_bytes
       - rhs.oversized_guaranteed_requests_extra_bytes,
   size_bytes |-> lhs.size_bytes - rhs.size_bytes]

(***************************************************************************)
(* BTreeMap<MessageId, RequestOrResponse>                                  *)
(***************************************************************************)
EmptyMap == [k \in {} |-> None]

contains_key(map, k) == k \in DOMAIN map

map_insert(map, k, v) == [x \in (DOMAIN map) \cup {k} |-> IF x = k THEN v ELSE map[x]]

map_remove(map, k) == [x \in (DOMAIN map) \ {k} |-> map[x]]

(***************************************************************************)
(* BinaryHeap<(K, MessageId)>: a max-heap held in a vector; position p of  *)
(* the vector is element p + 1 of the sequence.  rev is TRUE for the       *)
(* deadline queue, whose key is Reverse<CoarseTime>.                       *)
(***************************************************************************)
\* Mutant: entries with equal keys are ordered by descending id.
EntryLt_ties_by_descending_id(rev, a, b) ==
  IF a[1] # b[1]
  THEN (IF rev THEN a[1] > b[1] ELSE a[1] < b[1])
  ELSE a[2] > b[2]

\* Mutant: the deadline key is compared without Reverse.
EntryLt_without_reverse(rev, a, b) ==
  IF a[1] # b[1] THEN a[1] < b[1] ELSE a[2] < b[2]

\* Ord of the tuple (K, MessageId): by key, then by id.
EntryLt(rev, a, b) ==
  IF a[1] # b[1]
  THEN (IF rev THEN a[1] > b[1] ELSE a[1] < b[1])
  ELSE a[2] < b[2]

EntryLe(rev, a, b) == a = b \/ EntryLt(rev, a, b)

Swap(data, p, q) ==
  [i \in DOMAIN data |->
     IF i = p + 1 THEN data[q + 1] ELSE IF i = q + 1 THEN data[p + 1] ELSE data[i]]

RECURSIVE sift_up(_, _, _, _)
sift_up(rev, data, start, pos) ==
  IF pos > start
  THEN LET parent == (pos - 1) \div 2
       IN  IF EntryLe(rev, data[pos + 1], data[parent + 1])
           THEN data
           ELSE sift_up(rev, Swap(data, pos, parent), start, parent)
  ELSE data

RECURSIVE sift_down_range(_, _, _, _)
sift_down_range(rev, data, pos, end) ==
  LET child == 2 * pos + 1
  IN  IF child <= saturating_sub(end, 2)
      THEN LET c == IF EntryLe(rev, data[child + 1], data[child + 2])
                    THEN child + 1 ELSE child
           IN  IF ~EntryLt(rev, data[pos + 1], data[c + 1])
               THEN data
               ELSE sift_down_range(rev, Swap(data, pos, c), c, end)
      ELSE IF child = end - 1 /\ EntryLt(rev, data[pos + 1], data[child + 1])
           THEN Swap(data, pos, child)
           ELSE data

RECURSIVE sift_down_to_bottom_loop(_, _, _)
sift_down_to_bottom_loop(rev, data, pos) ==
  LET end == Len(data)
      child == 2 * pos + 1
  IN  IF child <= saturating_sub(end, 2)
      THEN LET c == IF EntryLe(rev, data[child + 1], data[child + 2])
                    THEN child + 1 ELSE child
           IN  sift_down_to_bottom_loop(rev, Swap(data, pos, c), c)
      ELSE IF child = end - 1
           THEN [data |-> Swap(data, pos, child), pos |-> child]
           ELSE [data |-> data, pos |-> pos]

sift_down_to_bottom(rev, data, pos) ==
  LET r == sift_down_to_bottom_loop(rev, data, pos)
  IN  sift_up(rev, r.data, pos, r.pos)

\* Mutant: push appends the item and does not sift it up.
heap_push_without_sift_up(rev, data, item) == Append(data, item)

heap_push(rev, data, item) ==
  LET old_len == Len(data)
  IN  sift_up(rev, Append(data, item), 0, old_len)

heap_peek(data) == IF Len(data) = 0 THEN None ELSE Some(data[1])

\* pop: the last element of the vector replaces the root and is sifted down.
heap_pop(rev, data) ==
  IF Len(data) = 0
  THEN [item |-> None, data |-> data]
  ELSE LET item == data[Len(data)]
           rest == SubSeq(data, 1, Len(data) - 1)
       IN  IF Len(rest) = 0
           THEN [item |-> Some(item), data |-> rest]
           ELSE [item |-> Some(rest[1]),
                 data |-> sift_down_to_bottom(rev, [rest EXCEPT ![1] = item], 0)]

RECURSIVE rebuild_loop(_, _, _)
rebuild_loop(rev, data, n) ==
  IF n > 0
  THEN rebuild_loop(rev, sift_down_range(rev, data, n - 1, Len(data)), n - 1)
  ELSE data

rebuild(rev, data) == rebuild_loop(rev, data, Len(data) \div 2)

RECURSIVE log2_fast(_)
log2_fast(x) == IF x <= 1 THEN 0 ELSE 1 + log2_fast(x \div 2)

RECURSIVE sift_up_from(_, _, _)
sift_up_from(rev, data, i) ==
  IF i < Len(data) THEN sift_up_from(rev, sift_up(rev, data, 0, i), i + 1) ELSE data

rebuild_tail(rev, data, start) ==
  IF start = Len(data)
  THEN data
  ELSE LET tail_len == Len(data) - start
           better_to_rebuild ==
             IF start < tail_len THEN TRUE
             ELSE 2 * Len(data) < tail_len * log2_fast(start)
       IN  IF better_to_rebuild THEN rebuild(rev, data) ELSE sift_up_from(rev, data, start)

\* retain: drop the entries whose id is not in keep, then restore the heap
\* from the first position that was touched.
\* Mutant: the predicate of retain is inverted, stale entries are the ones kept.
heap_retain_inverted(rev, data, keep) ==
  LET removed == {i \in DOMAIN data : data[i][2] \in keep}
      rebuild_from ==
        IF removed = {} THEN Len(data)
        ELSE (CHOOSE i \in removed : \A j \in removed : i <= j) - 1
      kept == SelectSeq(data, LAMBDA e : e[2] \notin keep)
  IN  IF removed = {} THEN data ELSE rebuild_tail(rev, kept, rebuild_from)

heap_retain(rev, data, keep) ==
  LET removed == {i \in DOMAIN data : data[i][2] \notin keep}
      rebuild_from ==
        IF removed = {} THEN Len(data)
        ELSE (CHOOSE i \in removed : \A j \in removed : i <= j) - 1
      kept == SelectSeq(data, LAMBDA e : e[2] \in keep)
  IN  IF removed = {} THEN data ELSE rebuild_tail(rev, kept, rebuild_from)

(***************************************************************************)
(* MessagePool                                                             *)
(***************************************************************************)
VARIABLES
  messages,                   \* pool contents: MessageId -> RequestOrResponse
  memory_usage_stats,         \* running memory usage stats
  deadline_queue,             \* BinaryHeap<(Reverse<CoarseTime>, MessageId)>
  size_queue,                 \* BinaryHeap<(usize, MessageId)>
  next_message_id_generator,  \* counter behind the message ids
  placeholders,               \* ResponsePlaceholders held by the caller
  panicked,                   \* an operation panicked: the pool is used no more
  budget,                     \* bytes this behaviour may still insert
  issued,                     \* every id handed out so far, in order
  hist,                       \* every id ever stored: its message, operation, deadline
                              \* and, for a deadline computed from a time, that time
  removed,                    \* ids returned by take, expire_messages, shed_largest_message
  last                        \* the last operation, its arguments and its result

vars ==
  <<messages, memory_usage_stats, deadline_queue, size_queue,
    next_message_id_generator, placeholders, panicked, budget, issued, hist,
    removed, last>>

\* The pool as one value (`self`).
Pool ==
  [messages |-> messages,
   memory_usage_stats |-> memory_usage_stats,
   deadline_queue |-> deadline_queue,
   size_queue |-> size_queue,
   next_message_id_generator |-> next_message_id_generator]

MessagePool_default ==
  [messages |-> EmptyMap,
   memory_usage_stats |-> MemoryUsageStats_default,
   deadline_queue |-> <<>>,
   size_queue |-> <<>>,
   next_message_id_generator |-> 0]

\* Reserves and returns a new message ID.
\* Mutant: the generator is incremented before the id is built from it.
next_message_id_incremented_first(self, kind, context, class) ==
  [id |-> MessageId_new(kind, context, class, self.next_message_id_generator + 1),
   self |-> [self EXCEPT !.next_message_id_generator = @ + 1]]

next_message_id(self, kind, context, class) ==
  [id |-> MessageId_new(kind, context, class, self.next_message_id_generator),
   self |-> [self EXCEPT !.next_message_id_generator = @ + 1]]

calculate_memory_usage_stats_of(map) ==
  LET RECURSIVE sum(_)
      sum(ids) ==
        IF ids = {} THEN MemoryUsageStats_default
        ELSE LET i == CHOOSE x \in ids : TRUE
             IN  add_assign(sum(ids \ {i}), stats_delta(map[i]))
  IN  sum(DOMAIN map)

calculate_memory_usage_stats(self) == calculate_memory_usage_stats_of(self.messages)

\* Mutant: the queues are never pruned.
maybe_trim_queues_never(self) == self

\* Mutant: a queue is pruned when it is longer than 2 * len.
maybe_trim_queues_early(self) ==
  LET len == Cardinality(DOMAIN self.messages)
      dq == IF Len(self.deadline_queue) > 2 * len
            THEN heap_retain(TRUE, self.deadline_queue, DOMAIN self.messages)
            ELSE self.deadline_queue
      sq == IF Len(self.size_queue) > 2 * len
            THEN heap_retain(FALSE, self.size_queue, DOMAIN self.messages)
            ELSE self.size_queue
  IN  [self EXCEPT !.deadline_queue = dq, !.size_queue = sq]

\* Prunes a priority queue when it is longer than 2 * len + 2.
maybe_trim_queues(self) ==
  LET len == Cardinality(DOMAIN self.messages)
      dq == IF Len(self.deadline_queue) > 2 * len + 2
            THEN heap_retain(TRUE, self.deadline_queue, DOMAIN self.messages)
            ELSE self.deadline_queue
      sq == IF Len(self.size_queue) > 2 * len + 2
            THEN heap_retain(FALSE, self.size_queue, DOMAIN self.messages)
            ELSE self.size_queue
  IN  [self EXCEPT !.deadline_queue = dq, !.size_queue = sq]

\* Mutant: take leaves the stats as they were.
take_keeps_stats(self, id) ==
  IF ~contains_key(self.messages, id)
  THEN [self |-> self, ret |-> None]
  ELSE LET msg == self.messages[id]
           s1 == [self EXCEPT !.messages = map_remove(@, id)]
       IN  [self |-> maybe_trim_queues(s1), ret |-> Some(msg)]

\* Mutant: take returns the message and leaves it in the store.
take_keeps_message(self, id) ==
  IF ~contains_key(self.messages, id)
  THEN [self |-> self, ret |-> None]
  ELSE [self |-> self, ret |-> Some(self.messages[id])]

\* Mutant: take of an id that is not in the pool prunes the queues.
take_prunes_when_absent(self, id) ==
  IF ~contains_key(self.messages, id)
  THEN [self |-> [self EXCEPT
                    !.deadline_queue = heap_retain(TRUE, @, DOMAIN self.messages),
                    !.size_queue = heap_retain(FALSE, @, DOMAIN self.messages)],
        ret |-> None]
  ELSE LET msg == self.messages[id]
           s1 == [self EXCEPT
                    !.messages = map_remove(@, id),
                    !.memory_usage_stats = sub_assign(@, stats_delta(msg))]
       IN  [self |-> maybe_trim_queues(s1), ret |-> Some(msg)]

\* Removes the message with the given id; None when it is not in the pool.
take(self, id) ==
  IF ~contains_key(self.messages, id)
  THEN [self |-> self, ret |-> None]
  ELSE LET msg == self.messages[id]
           s1 == [self EXCEPT
                    !.messages = map_remove(@, id),
                    !.memory_usage_stats = sub_assign(@, stats_delta(msg))]
       IN  [self |-> maybe_trim_queues(s1), ret |-> Some(msg)]

\* Mutant: only a best-effort message is recorded in the deadline queue.
record_in_deadline_queue_best_effort_only(self, deadline, id) ==
  IF deadline # NO_DEADLINE /\ is_best_effort(id)
  THEN [self EXCEPT !.deadline_queue = heap_push(TRUE, @, <<deadline, id>>)]
  ELSE self

\* Record in deadline queue iff a deadline was provided.
record_in_deadline_queue(self, deadline, id) ==
  IF deadline # NO_DEADLINE
  THEN [self EXCEPT !.deadline_queue = heap_push(TRUE, @, <<deadline, id>>)]
  ELSE self

\* Mutant: every message is recorded in the load shedding queue.
record_in_size_queue_always(self, msg_is_best_effort, size_bytes, id) ==
  [self EXCEPT !.size_queue = heap_push(FALSE, @, <<size_bytes, id>>)]

\* Record in load shedding queue iff it's a best-effort message.
record_in_size_queue(self, msg_is_best_effort, size_bytes, id) ==
  IF msg_is_best_effort
  THEN [self EXCEPT !.size_queue = heap_push(FALSE, @, <<size_bytes, id>>)]
  ELSE self

\* The common insert path.  The assert on the store's insert panics when the
\* id is already in the store, after the stats and the store were updated.
insert_impl(self, msg, deadline, context) ==
  LET kind == IF msg.kind = "Request" THEN Kind_Request ELSE Kind_Response
      class == IF msg.deadline = NO_DEADLINE
               THEN Class_GuaranteedResponse ELSE Class_BestEffort
      n == next_message_id(self, kind, context, class)
      id == n.id
      size_bytes == msg.size
      msg_is_best_effort == msg.deadline # NO_DEADLINE
      s1 == [n.self EXCEPT
               !.memory_usage_stats = add_assign(@, stats_delta(msg)),
               !.messages = map_insert(@, id, msg)]
      s2 == record_in_deadline_queue(s1, deadline, id)
      s3 == record_in_size_queue(s2, msg_is_best_effort, size_bytes, id)
  IN  IF contains_key(self.messages, id)
      THEN [self |-> s1, id |-> id, deadline |-> deadline, panic |-> TRUE]
      ELSE [self |-> s3, id |-> id, deadline |-> deadline, panic |-> FALSE]

\* Mutant: an inbound response is inserted with its own deadline.
insert_inbound_own_deadline(self, msg) ==
  insert_impl(self, msg, msg.deadline, Context_Inbound)

insert_inbound(self, msg) ==
  LET deadline == IF msg.kind = "Request" THEN msg.deadline ELSE NO_DEADLINE
  IN  insert_impl(self, msg, deadline, Context_Inbound)

\* Mutant: REQUEST_LIFETIME is not added to now.
insert_outbound_request_without_lifetime(self, request, now) ==
  LET deadline == IF request.deadline = NO_DEADLINE
                  THEN CoarseTime_floor(now)
                  ELSE request.deadline
  IN  insert_impl(self, request, deadline, Context_Outbound)

insert_outbound_request(self, request, now) ==
  LET deadline == IF request.deadline = NO_DEADLINE
                  THEN CoarseTime_floor(now + REQUEST_LIFETIME)
                  ELSE request.deadline
  IN  insert_impl(self, request, deadline, Context_Outbound)

\* Mutant: a guaranteed response in an output queue expires after
\* REQUEST_LIFETIME.
insert_outbound_response_with_lifetime(self, response) ==
  LET deadline == IF response.deadline = NO_DEADLINE
                  THEN CoarseTime_floor(REQUEST_LIFETIME)
                  ELSE response.deadline
  IN  insert_impl(self, response, deadline, Context_Outbound)

\* Mutant: the outbound response gets the id of an inbound message.
insert_outbound_response_inbound(self, response) ==
  insert_impl(self, response, response.deadline, Context_Inbound)

insert_outbound_response(self, response) ==
  insert_impl(self, response, response.deadline, Context_Outbound)

\* Mutant: the placeholder's id is that of an outbound response.
insert_inbound_timeout_response_outbound(self) ==
  next_message_id(self, Kind_Response, Context_Outbound, Class_BestEffort)

\* Prepares a placeholder: only the id counter changes.
insert_inbound_timeout_response(self) ==
  next_message_id(self, Kind_Response, Context_Inbound, Class_BestEffort)

\* Mutant: any message is stored under the placeholder's id.
replace_inbound_timeout_response_any_message(self, placeholder, msg) ==
  LET id == placeholder
      size_bytes == msg.size
      s1 == [self EXCEPT
               !.memory_usage_stats = add_assign(@, stats_delta(msg)),
               !.messages = map_insert(@, id, msg)]
      s2 == [s1 EXCEPT !.size_queue = heap_push(FALSE, @, <<size_bytes, id>>)]
  IN  IF contains_key(self.messages, id)
      THEN [self |-> s1, panic |-> TRUE]
      ELSE [self |-> s2, panic |-> FALSE]

\* Mutant: the response is also recorded in the deadline queue.
replace_inbound_timeout_response_with_deadline(self, placeholder, msg) ==
  IF ~(msg.kind = "Response" /\ msg.deadline # NO_DEADLINE)
  THEN [self |-> self, panic |-> TRUE]
  ELSE LET id == placeholder
           size_bytes == msg.size
           s1 == [self EXCEPT
                    !.memory_usage_stats = add_assign(@, stats_delta(msg)),
                    !.messages = map_insert(@, id, msg)]
           s2 == [s1 EXCEPT
                    !.deadline_queue = heap_push(TRUE, @, <<msg.deadline, id>>),
                    !.size_queue = heap_push(FALSE, @, <<size_bytes, id>>)]
       IN  IF contains_key(self.messages, id)
           THEN [self |-> s1, panic |-> TRUE]
           ELSE [self |-> s2, panic |-> FALSE]

\* Mutant: the response is stored and recorded in no queue.
replace_inbound_timeout_response_unrecorded(self, placeholder, msg) ==
  IF ~(msg.kind = "Response" /\ msg.deadline # NO_DEADLINE)
  THEN [self |-> self, panic |-> TRUE]
  ELSE LET id == placeholder
           s1 == [self EXCEPT
                    !.memory_usage_stats = add_assign(@, stats_delta(msg)),
                    !.messages = map_insert(@, id, msg)]
       IN  [self |-> s1, panic |-> contains_key(self.messages, id)]

\* Mutant: the message is checked after it was stored.
replace_inbound_timeout_response_checks_late(self, placeholder, msg) ==
  LET id == placeholder
      size_bytes == msg.size
      s1 == [self EXCEPT
               !.memory_usage_stats = add_assign(@, stats_delta(msg)),
               !.messages = map_insert(@, id, msg)]
      s2 == [s1 EXCEPT !.size_queue = heap_push(FALSE, @, <<size_bytes, id>>)]
  IN  IF contains_key(self.messages, id)
      THEN [self |-> s1, panic |-> TRUE]
      ELSE [self |-> s2, panic |-> ~(msg.kind = "Response" /\ msg.deadline # NO_DEADLINE)]

\* Stores a late inbound best-effort response under the placeholder's id.
replace_inbound_timeout_response(self, placeholder, msg) ==
  IF ~(msg.kind = "Response" /\ msg.deadline # NO_DEADLINE)
  THEN [self |-> self, panic |-> TRUE]
  ELSE LET id == placeholder
           size_bytes == msg.size
           s1 == [self EXCEPT
                    !.memory_usage_stats = add_assign(@, stats_delta(msg)),
                    !.messages = map_insert(@, id, msg)]
           s2 == [s1 EXCEPT !.size_queue = heap_push(FALSE, @, <<size_bytes, id>>)]
       IN  IF contains_key(self.messages, id)
           THEN [self |-> s1, panic |-> TRUE]
           ELSE [self |-> s2, panic |-> FALSE]

\* Mutant: get_request looks the id up without the assert on its kind bit.
get_request_unchecked(self, id) ==
  [ret |-> IF contains_key(self.messages, id) THEN Some(self.messages[id]) ELSE None,
   panic |-> FALSE]

\* Retrieves the request with the given id; panics if the id was generated
\* for a response.
get_request(self, id) ==
  IF is_response(id)
  THEN [ret |-> None, panic |-> TRUE]
  ELSE [ret |-> IF contains_key(self.messages, id) THEN Some(self.messages[id]) ELSE None,
        panic |-> FALSE]

\* Retrieves the response with the given id; panics if the id was generated
\* for a request.
get_response(self, id) ==
  IF ~is_response(id)
  THEN [ret |-> None, panic |-> TRUE]
  ELSE [ret |-> IF contains_key(self.messages, id) THEN Some(self.messages[id]) ELSE None,
        panic |-> FALSE]

get(self, id) == IF contains_key(self.messages, id) THEN Some(self.messages[id]) ELSE None

\* Mutant: a head whose message has left the pool does not count as expired.
has_expired_deadlines_head_in_pool(self, now) ==
  IF heap_peek(self.deadline_queue) # None
  THEN /\ unwrap(heap_peek(self.deadline_queue))[1] < CoarseTime_floor(now)
       /\ contains_key(self.messages, unwrap(heap_peek(self.deadline_queue))[2])
  ELSE FALSE

\* Mutant: a head deadline equal to now counts as expired.
has_expired_deadlines_at_deadline(self, now) ==
  IF heap_peek(self.deadline_queue) # None
  THEN unwrap(heap_peek(self.deadline_queue))[1] <= CoarseTime_floor(now)
  ELSE FALSE

has_expired_deadlines(self, now) ==
  IF heap_peek(self.deadline_queue) # None
  THEN unwrap(heap_peek(self.deadline_queue))[1] < CoarseTime_floor(now)
  ELSE FALSE

\* Mutant: the loop reports the message of a popped entry and leaves it in
\* the store.
RECURSIVE expire_loop_gets(_, _, _)
expire_loop_gets(self, now, expired) ==
  LET top == heap_peek(self.deadline_queue)
  IN  IF top = None \/ unwrap(top)[1] >= now
      THEN [self |-> self, ret |-> expired]
      ELSE LET id == unwrap(top)[2]
               popped == [self EXCEPT !.deadline_queue = heap_pop(TRUE, @).data]
               g == get(popped, id)
           IN  expire_loop_gets(popped, now,
                                IF g # None
                                THEN Append(expired, <<id, unwrap(g)>>) ELSE expired)

\* Mutant: the loop also pops a top deadline equal to now.
RECURSIVE expire_loop_at_deadline(_, _, _)
expire_loop_at_deadline(self, now, expired) ==
  LET top == heap_peek(self.deadline_queue)
  IN  IF top = None \/ unwrap(top)[1] > now
      THEN [self |-> self, ret |-> expired]
      ELSE LET id == unwrap(top)[2]
               popped == [self EXCEPT !.deadline_queue = heap_pop(TRUE, @).data]
               t == take(popped, id)
           IN  expire_loop_at_deadline(t.self, now,
                 IF t.ret # None
                 THEN Append(expired, <<id, unwrap(t.ret)>>) ELSE expired)

\* Mutant: a popped entry whose message is gone is pushed back, keyed by now.
RECURSIVE expire_loop_requeues_stale(_, _, _)
expire_loop_requeues_stale(self, now, expired) ==
  LET top == heap_peek(self.deadline_queue)
  IN  IF top = None \/ unwrap(top)[1] >= now
      THEN [self |-> self, ret |-> expired, n |-> 0]
      ELSE LET id == unwrap(top)[2]
               popped == [self EXCEPT !.deadline_queue = heap_pop(TRUE, @).data]
               t == take(popped, id)
               next == IF t.ret # None THEN t.self
                       ELSE [t.self EXCEPT
                               !.deadline_queue = heap_push(TRUE, @, <<now, id>>)]
               rest == expire_loop_requeues_stale(next, now,
                         IF t.ret # None
                         THEN Append(expired, <<id, unwrap(t.ret)>>)
                         ELSE expired)
           IN  [rest EXCEPT !.n = @ + 1]

\* Mutant: a removed message is reported only if it is best-effort.
RECURSIVE expire_loop_reports_best_effort(_, _, _)
expire_loop_reports_best_effort(self, now, expired) ==
  LET top == heap_peek(self.deadline_queue)
  IN  IF top = None \/ unwrap(top)[1] >= now
      THEN [self |-> self, ret |-> expired, n |-> 0]
      ELSE LET id == unwrap(top)[2]
               popped == [self EXCEPT !.deadline_queue = heap_pop(TRUE, @).data]
               t == take(popped, id)
               rest == expire_loop_reports_best_effort(t.self, now,
                         IF t.ret # None /\ unwrap(t.ret).deadline # NO_DEADLINE
                         THEN Append(expired, <<id, unwrap(t.ret)>>)
                         ELSE expired)
           IN  [rest EXCEPT !.n = @ + 1]

\* Mutant: the loop is an if, at most one entry is popped.
expire_loop_single(self, now, expired) ==
  LET top == heap_peek(self.deadline_queue)
  IN  IF top = None \/ unwrap(top)[1] >= now
      THEN [self |-> self, ret |-> expired, n |-> 0]
      ELSE LET id == unwrap(top)[2]
               popped == [self EXCEPT !.deadline_queue = heap_pop(TRUE, @).data]
               t == take(popped, id)
           IN  [self |-> t.self,
                ret |-> IF t.ret # None
                        THEN Append(expired, <<id, unwrap(t.ret)>>) ELSE expired,
                n |-> 1]

\* The loop of expire_messages: pop while the top deadline is before now.
\* n counts the iterations that popped an entry.
RECURSIVE expire_loop(_, _, _)
expire_loop(self, now, expired) ==
  LET top == heap_peek(self.deadline_queue)
  IN  IF top = None \/ unwrap(top)[1] >= now
      THEN [self |-> self, ret |-> expired, n |-> 0]
      ELSE LET id == unwrap(top)[2]
               popped == [self EXCEPT !.deadline_queue = heap_pop(TRUE, @).data]
               t == take(popped, id)
               rest == expire_loop(t.self, now,
                                   IF t.ret # None
                                   THEN Append(expired, <<id, unwrap(t.ret)>>)
                                   ELSE expired)
           IN  [rest EXCEPT !.n = @ + 1]

\* Mutant: a deadline equal to now counts as expired.
expire_messages_through_now(self, now) ==
  IF Len(self.deadline_queue) = 0
  THEN [self |-> self, ret |-> <<>>]
  ELSE expire_loop(self, CoarseTime_floor(now) + 1, <<>>)

expire_messages(self, now) ==
  IF Len(self.deadline_queue) = 0
  THEN [self |-> self, ret |-> <<>>, n |-> 0]
  ELSE expire_loop(self, CoarseTime_floor(now), <<>>)

\* Mutant: the loop is an if, a stale entry at the top ends the search.
shed_largest_message_single(self) ==
  LET p == heap_pop(FALSE, self.size_queue)
  IN  IF p.item = None
      THEN [self |-> self, ret |-> None, n |-> 0]
      ELSE LET id == unwrap(p.item)[2]
               t == take([self EXCEPT !.size_queue = p.data], id)
           IN  IF t.ret # None
               THEN [self |-> t.self, ret |-> Some(<<id, unwrap(t.ret)>>), n |-> 1]
               ELSE [self |-> t.self, ret |-> None, n |-> 1]

\* Mutant: with nothing to shed, the message with the least id is dropped.
RECURSIVE shed_largest_message_or_first(_)
shed_largest_message_or_first(self) ==
  LET p == heap_pop(FALSE, self.size_queue)
  IN  IF p.item = None
      THEN IF self.messages = EmptyMap
           THEN [self |-> self, ret |-> None]
           ELSE LET id == CHOOSE x \in DOMAIN self.messages :
                            \A y \in DOMAIN self.messages : x <= y
                    t == take(self, id)
                IN  [self |-> t.self, ret |-> Some(<<id, unwrap(t.ret)>>)]
      ELSE LET id == unwrap(p.item)[2]
               t == take([self EXCEPT !.size_queue = p.data], id)
           IN  IF t.ret # None
               THEN [self |-> t.self, ret |-> Some(<<id, unwrap(t.ret)>>)]
               ELSE shed_largest_message_or_first(t.self)

\* Pops the size queue until a popped id is still in the store.  n counts the
\* iterations that popped an entry.
RECURSIVE shed_largest_message(_)
shed_largest_message(self) ==
  LET p == heap_pop(FALSE, self.size_queue)
  IN  IF p.item = None
      THEN [self |-> self, ret |-> None, n |-> 0]
      ELSE LET id == unwrap(p.item)[2]
               t == take([self EXCEPT !.size_queue = p.data], id)
           IN  IF t.ret # None
               THEN [self |-> t.self, ret |-> Some(<<id, unwrap(t.ret)>>), n |-> 1]
               ELSE [shed_largest_message(t.self) EXCEPT !.n = @ + 1]

len(self) == Cardinality(DOMAIN self.messages)

\* Mutant: the queues are compared entry by entry up to the shorter length.
PoolEq_without_lengths(a, b) ==
  LET Shorter(p, q) == IF Len(p) < Len(q) THEN Len(p) ELSE Len(q)
  IN  /\ a.messages = b.messages
      /\ a.memory_usage_stats = b.memory_usage_stats
      /\ \A i \in 1..Shorter(a.deadline_queue, b.deadline_queue) :
           a.deadline_queue[i] = b.deadline_queue[i]
      /\ \A i \in 1..Shorter(a.size_queue, b.size_queue) :
           a.size_queue[i] = b.size_queue[i]
      /\ a.next_message_id_generator = b.next_message_id_generator

\* impl PartialEq for MessagePool
PoolEq(a, b) ==
  /\ a.messages = b.messages
  /\ a.memory_usage_stats = b.memory_usage_stats
  /\ Len(a.deadline_queue) = Len(b.deadline_queue)
  /\ \A i \in 1..Len(a.deadline_queue) : a.deadline_queue[i] = b.deadline_queue[i]
  /\ Len(a.size_queue) = Len(b.size_queue)
  /\ \A i \in 1..Len(a.size_queue) : a.size_queue[i] = b.size_queue[i]
  /\ a.next_message_id_generator = b.next_message_id_generator

(***************************************************************************)
(* The state machine: one action per public operation.                     *)
(***************************************************************************)
NoLast == [op |-> "new", id |-> NoId, msg |-> None, now |-> NoTime, out |-> <<>>]

Init ==
  /\ messages = MessagePool_default.messages
  /\ memory_usage_stats = MessagePool_default.memory_usage_stats
  /\ deadline_queue = MessagePool_default.deadline_queue
  /\ size_queue = MessagePool_default.size_queue
  /\ next_message_id_generator = MessagePool_default.next_message_id_generator
  /\ placeholders = {}
  /\ panicked = FALSE
  /\ budget = MaxBytes
  /\ issued = <<>>
  /\ hist = EmptyMap
  /\ removed = {}
  /\ last = NoLast

\* The pool after 2^(WordBits - BITMASK_LEN) - 1 calls of
\* insert_inbound_timeout_response whose placeholders the caller dropped.
InitWrap ==
  LET n == Pow2(WordBits - BITMASK_LEN) - 1
  IN  /\ messages = MessagePool_default.messages
      /\ memory_usage_stats = MessagePool_default.memory_usage_stats
      /\ deadline_queue = MessagePool_default.deadline_queue
      /\ size_queue = MessagePool_default.size_queue
      /\ next_message_id_generator = n
      /\ placeholders = {}
      /\ panicked = FALSE
      /\ budget = MaxBytesWrap
      /\ issued = [g \in 1..n |->
                     MessageId_new(Kind_Response, Context_Inbound, Class_BestEffort, g - 1)]
      /\ hist = EmptyMap
      /\ removed = {}
      /\ last = NoLast

\* The state as a record, and the state a record describes as the next one.
State ==
  [messages |-> messages,
   memory_usage_stats |-> memory_usage_stats,
   deadline_queue |-> deadline_queue,
   size_queue |-> size_queue,
   next_message_id_generator |-> next_message_id_generator,
   placeholders |-> placeholders,
   panicked |-> panicked,
   budget |-> budget,
   issued |-> issued,
   hist |-> hist,
   removed |-> removed,
   last |-> last]

Becomes(s) ==
  /\ messages' = s.messages
  /\ memory_usage_stats' = s.memory_usage_stats
  /\ deadline_queue' = s.deadline_queue
  /\ size_queue' = s.size_queue
  /\ next_message_id_generator' = s.next_message_id_generator
  /\ placeholders' = s.placeholders
  /\ panicked' = s.panicked
  /\ budget' = s.budget
  /\ issued' = s.issued
  /\ hist' = s.hist
  /\ removed' = s.removed
  /\ last' = s.last

\* The pool of a state record.
PoolOf(s) ==
  [messages |-> s.messages,
   memory_usage_stats |-> s.memory_usage_stats,
   deadline_queue |-> s.deadline_queue,
   size_queue |-> s.size_queue,
   next_message_id_generator |-> s.next_message_id_generator]

\* The state with the pool that an operation left as self.
SetPool(self) ==
  [State EXCEPT !.messages = self.messages,
                !.memory_usage_stats = self.memory_usage_stats,
                !.deadline_queue = self.deadline_queue,
                !.size_queue = self.size_queue,
                !.next_message_id_generator = self.next_message_id_generator]

\* What an insert operation leaves behind: r is the result of insert_impl,
\* now the time the operation was given (NoTime when it takes none).
Inserted(op, msg, now, r) ==
  [SetPool(r.self) EXCEPT
     !.panicked = r.panic,
     !.budget = budget - msg.size,
     !.issued = Append(issued, r.id),
     !.hist = IF r.panic THEN hist
              ELSE map_insert(hist, r.id,
                     [msg |-> msg, via |-> op, eff |-> r.deadline,
                      at |-> IF r.deadline = msg.deadline THEN NoTime ELSE now]),
     !.removed = IF r.panic THEN removed ELSE removed \ {r.id},
     !.last = [op |-> op, id |-> r.id, msg |-> Some(msg), now |-> now, out |-> <<>>]]

\* The messages the allocation budget still admits.
Admitted(msgs) ==
  IF panicked \/ budget = 0 THEN {} ELSE {msg \in msgs : msg.size <= budget}

\* The states one call of insert_inbound can lead to.
InsertInboundSteps ==
  {Inserted("insert_inbound", msg, NoTime, insert_inbound(Pool, msg)) :
     msg \in Admitted(Messages)}

InsertInbound == \E s \in InsertInboundSteps : Becomes(s)

InsertOutboundRequestSteps ==
  {Inserted("insert_outbound_request", a[1], a[2],
            insert_outbound_request(Pool, a[1], a[2])) :
     a \in Admitted(Requests) \X InsertNows}

InsertOutboundRequest == \E s \in InsertOutboundRequestSteps : Becomes(s)

InsertOutboundResponseSteps ==
  {Inserted("insert_outbound_response", response, NoTime,
            insert_outbound_response(Pool, response)) :
     response \in Admitted(Responses)}

InsertOutboundResponse == \E s \in InsertOutboundResponseSteps : Becomes(s)

InsertInboundTimeoutResponseSteps ==
  IF panicked \/ budget = 0 THEN {}
  ELSE LET r == insert_inbound_timeout_response(Pool)
       IN  {[SetPool(r.self) EXCEPT
               !.placeholders = placeholders \cup {r.id},
               !.budget = budget - 1,
               !.issued = Append(issued, r.id),
               !.last = [op |-> "insert_inbound_timeout_response", id |-> r.id,
                         msg |-> None, now |-> NoTime, out |-> <<>>]]}

InsertInboundTimeoutResponse ==
  \E s \in InsertInboundTimeoutResponseSteps : Becomes(s)

\* The placeholder is consumed, also when the operation panics.
Replaced(placeholder, msg) ==
  LET r == replace_inbound_timeout_response(Pool, placeholder, msg)
  IN  [SetPool(r.self) EXCEPT
         !.placeholders = placeholders \ {placeholder},
         !.panicked = r.panic,
         !.hist = IF r.panic THEN hist
                  ELSE map_insert(hist, placeholder,
                         [msg |-> msg, via |-> "replace_inbound_timeout_response",
                          at |-> NoTime, eff |-> NO_DEADLINE]),
         !.removed = IF r.panic THEN removed ELSE removed \ {placeholder},
         !.last = [op |-> "replace_inbound_timeout_response", id |-> placeholder,
                   msg |-> Some(msg), now |-> NoTime, out |-> <<>>]]

ReplaceInboundTimeoutResponseSteps ==
  IF panicked THEN {}
  ELSE {Replaced(a[1], a[2]) : a \in placeholders \X Messages}

ReplaceInboundTimeoutResponse ==
  \E s \in ReplaceInboundTimeoutResponseSteps : Becomes(s)

\* What get_request and get_response leave behind: the pool as it was.
Got(op, id, r) ==
  [State EXCEPT
     !.panicked = r.panic,
     !.last = [op |-> op, id |-> id, msg |-> r.ret, now |-> NoTime, out |-> <<>>]]

\* get_request(id), for every id handed out so far.
GetRequestSteps ==
  IF panicked THEN {}
  ELSE {Got("get_request", issued[i], get_request(Pool, issued[i])) :
          i \in DOMAIN issued}

GetRequest == \E s \in GetRequestSteps : Becomes(s)

\* get_response(id), for every id handed out so far.
GetResponseSteps ==
  IF panicked THEN {}
  ELSE {Got("get_response", issued[i], get_response(Pool, issued[i])) :
          i \in DOMAIN issued}

GetResponse == \E s \in GetResponseSteps : Becomes(s)

\* has_expired_deadlines(now): the answer is recorded, the pool stays as it was.
HasExpiredDeadlinesSteps ==
  IF panicked THEN {}
  ELSE {[State EXCEPT
           !.last = [op |-> "has_expired_deadlines", id |-> NoId, msg |-> None,
                     now |-> now, out |-> <<has_expired_deadlines(Pool, now)>>]] :
          now \in ExpireNows}

HasExpiredDeadlines == \E s \in HasExpiredDeadlinesSteps : Becomes(s)

\* take(id), for every id handed out so far.
Taken(id) ==
  LET r == take(Pool, id)
  IN  [SetPool(r.self) EXCEPT
         !.last = [op |-> "take", id |-> id, msg |-> r.ret, now |-> NoTime,
                   out |-> <<>>],
         !.removed = IF r.ret # None THEN removed \cup {id} ELSE removed]

TakeSteps ==
  IF panicked THEN {} ELSE {Taken(issued[i]) : i \in DOMAIN issued}

Take == \E s \in TakeSteps : Becomes(s)

ExpiredAt(now) ==
  LET r == expire_messages(Pool, now)
  IN  [SetPool(r.self) EXCEPT
         !.last = [op |-> "expire_messages", id |-> NoId, msg |-> None,
                   now |-> now, out |-> r.ret],
         !.removed = removed \cup {r.ret[i][1] : i \in DOMAIN r.ret}]

ExpireMessagesSteps ==
  IF panicked THEN {} ELSE {ExpiredAt(now) : now \in ExpireNows}

ExpireMessages == \E s \in ExpireMessagesSteps : Becomes(s)

ShedLargestMessageSteps ==
  IF panicked THEN {}
  ELSE LET r == shed_largest_message(Pool)
       IN  {[SetPool(r.self) EXCEPT
               !.last = [op |-> "shed_largest_message",
                         id |-> IF r.ret = None THEN NoId ELSE unwrap(r.ret)[1],
                         msg |-> IF r.ret = None THEN None
                                 ELSE Some(unwrap(r.ret)[2]),
                         now |-> NoTime, out |-> <<>>],
               !.removed = IF r.ret # None THEN removed \cup {unwrap(r.ret)[1]}
                           ELSE removed]}

ShedLargestMessage == \E s \in ShedLargestMessageSteps : Becomes(s)

\* The states one operation of Next can lead to.
Steps ==
  InsertInboundSteps \cup InsertOutboundRequestSteps \cup InsertOutboundResponseSteps
    \cup InsertInboundTimeoutResponseSteps \cup ReplaceInboundTimeoutResponseSteps
    \cup TakeSteps \cup ExpireMessagesSteps \cup ShedLargestMessageSteps

Next ==
  \/ InsertInbound
  \/ InsertOutboundRequest
  \/ InsertOutboundResponse
  \/ InsertInboundTimeoutResponse
  \/ ReplaceInboundTimeoutResponse
  \/ Take
  \/ ExpireMessages
  \/ ShedLargestMessage

Spec == Init /\ [][Next]_vars

\* The same pool from the state in which the id counter is about to leave the
\* bits that MessageId::new keeps.
SpecWrap == InitWrap /\ [][Next]_vars

\* get_request, get_response and has_expired_deadlines only read the pool, or
\* panic: SpecGet is the pool with the three of them called between the other
\* operations.
InitGet ==
  /\ messages = MessagePool_default.messages
  /\ memory_usage_stats = MessagePool_default.memory_usage_stats
  /\ deadline_queue = MessagePool_default.deadline_queue
  /\ size_queue = MessagePool_default.size_queue
  /\ next_message_id_generator = MessagePool_default.next_message_id_generator
  /\ placeholders = {}
  /\ panicked = FALSE
  /\ budget = MaxBytesGet
  /\ issued = <<>>
  /\ hist = EmptyMap
  /\ removed = {}
  /\ last = NoLast

NextGet ==
  \/ Next
  \/ GetRequest
  \/ GetResponse
  \/ HasExpiredDeadlines

SpecGet == InitGet /\ [][NextGet]_vars

\* The pool with enough entries in its queues for maybe_trim_queues to prune
\* them while a message is still stored (more than 2 * len + 2 entries with
\* len >= 1): TrimPrefix is inserted through insert_outbound_response, and
\* any operation follows.
TrimPrefix ==
  << [kind |-> "Response", deadline |-> 1, size |-> 1],
     [kind |-> "Response", deadline |-> 1, size |-> 2],
     [kind |-> "Response", deadline |-> 1, size |-> 2],
     [kind |-> "Response", deadline |-> 1, size |-> 1] >>

RECURSIVE PoolAfter(_)
PoolAfter(k) ==
  IF k = 0 THEN MessagePool_default
  ELSE insert_outbound_response(PoolAfter(k - 1), TrimPrefix[k]).self

IdAfter(k) == insert_outbound_response(PoolAfter(k - 1), TrimPrefix[k]).id

InitTrim ==
  LET self == PoolAfter(Len(TrimPrefix))
  IN  /\ messages = self.messages
      /\ memory_usage_stats = self.memory_usage_stats
      /\ deadline_queue = self.deadline_queue
      /\ size_queue = self.size_queue
      /\ next_message_id_generator = self.next_message_id_generator
      /\ placeholders = {}
      /\ panicked = FALSE
      /\ budget = MaxBytesTrim
      /\ issued = [k \in DOMAIN TrimPrefix |-> IdAfter(k)]
      /\ hist = [id \in {IdAfter(k) : k \in DOMAIN TrimPrefix} |->
                   [msg |-> TrimPrefix[CHOOSE k \in DOMAIN TrimPrefix : IdAfter(k) = id],
                    via |-> "insert_outbound_response",
                    eff |-> TrimPrefix[CHOOSE k \in DOMAIN TrimPrefix :
                                         IdAfter(k) = id].deadline,
                    at |-> NoTime]]
      /\ removed = {}
      /\ last = NoLast

SpecTrim == InitTrim /\ [][Next]_vars

(***************************************************************************)
(* Properties                                                              *)
(***************************************************************************)
AllIds == 0..(Pow2(WordBits) - 1)

InsertOps == {"insert_inbound", "insert_outbound_request", "insert_outbound_response"}

\* C1: after every operation the running memory_usage_stats equal the stats
\* recomputed from scratch over the messages in the store.
C1_StatsEqualRecomputed ==
  memory_usage_stats = calculate_memory_usage_stats(Pool)

\* A message was shed, others stay in the store and the counters are not zero.
C1_Witness ==
  /\ last.op = "shed_largest_message" /\ last.msg # None
  /\ messages # EmptyMap
  /\ removed # {}
  /\ memory_usage_stats.oversized_guaranteed_requests_extra_bytes > 0

\* C2: after every operation each priority queue holds at most
\* 2 * |store| + 2 entries.
C2_QueueLengthsBounded ==
  /\ Len(deadline_queue) <= 2 * Cardinality(DOMAIN messages) + 2
  /\ Len(size_queue) <= 2 * Cardinality(DOMAIN messages) + 2

\* A take removed a message that had a deadline queue entry and left the
\* deadline queue empty: the queue was pruned.
C2_Witness ==
  /\ last.op = "take" /\ last.msg # None
  /\ hist[last.id].eff # NO_DEADLINE
  /\ deadline_queue = <<>>

\* C3: get(id) returns a message iff id was returned by an insert operation
\* or fulfilled through replace_inbound_timeout_response, and was not
\* returned by take, expire_messages or shed_largest_message since; an id
\* that was removed is not in the store after any later step.
C3_GetIffStoredAndNotRemoved ==
  /\ \A id \in AllIds :
       (get(Pool, id) # None) <=> (id \in DOMAIN hist /\ id \notin removed)
  /\ \A s \in Steps : \A id \in removed : get(PoolOf(s), id) = None

\* A placeholder was fulfilled and is in the store, another id was removed by
\* expire_messages.
C3_Witness ==
  /\ last.op = "expire_messages" /\ last.out # <<>>
  /\ \E id \in DOMAIN messages : hist[id].via = "replace_inbound_timeout_response"
  /\ \E id \in removed : get(Pool, id) = None

\* C4: every id handed out is strictly greater than every id handed out
\* before it.
C4_IdsStrictlyIncrease ==
  \A i, j \in DOMAIN issued : i < j => issued[i] < issued[j]

\* Two ids were handed out, the earlier one with the greater flag bits.
C4_Witness ==
  \E i, j \in DOMAIN issued :
    /\ i < j
    /\ issued[i] % Pow2(BITMASK_LEN) > issued[j] % Pow2(BITMASK_LEN)
    /\ issued[i] < issued[j]

\* C5: no two allocations return the same id, also when the generation
\* counter no longer fits in the bits above the flags.
C5_NoIdHandedOutTwice ==
  \A i, j \in DOMAIN issued : i # j => issued[i] # issued[j]

\* C6: take(id) of the id an insert just returned yields the inserted
\* message, and a take of an id that a take already returned yields nothing.
C6_RoundTrip ==
  \A s \in TakeSteps :
    /\ (last.op \in InsertOps /\ s.last.id = last.id) => s.last.msg = last.msg
    /\ s.last.id \in removed => s.last.msg = None

\* The id handed out last was taken and its message came back.
C6_Witness ==
  /\ last.op = "take"
  /\ issued # <<>> /\ last.id = issued[Len(issued)]
  /\ last.id \in DOMAIN hist
  /\ last.msg = Some(hist[last.id].msg)
  /\ hist[last.id].via \in InsertOps

\* The effective deadline with which the message under id was inserted.
EffectiveDeadline(id) == hist[id].eff

\* C8 as stated: expire_messages returns the messages by earliest deadline
\* first, equal deadlines by ascending id.
C8_ExpiredTiesAscending ==
  last.op = "expire_messages" =>
    \A i, j \in DOMAIN last.out :
      i < j =>
        \/ EffectiveDeadline(last.out[i][1]) < EffectiveDeadline(last.out[j][1])
        \/ /\ EffectiveDeadline(last.out[i][1]) = EffectiveDeadline(last.out[j][1])
           /\ last.out[i][1] < last.out[j][1]

\* C8 amended: expire_messages returns the messages by earliest deadline
\* first, equal deadlines by descending id.
C8_ExpiredTiesDescending ==
  last.op = "expire_messages" =>
    \A i, j \in DOMAIN last.out :
      i < j =>
        \/ EffectiveDeadline(last.out[i][1]) < EffectiveDeadline(last.out[j][1])
        \/ /\ EffectiveDeadline(last.out[i][1]) = EffectiveDeadline(last.out[j][1])
           /\ last.out[i][1] > last.out[j][1]

\* expire_messages returned two messages of one deadline and one of another.
C8_Witness ==
  /\ last.op = "expire_messages"
  /\ \E i, j, k \in DOMAIN last.out :
       /\ i < j
       /\ EffectiveDeadline(last.out[i][1]) = EffectiveDeadline(last.out[j][1])
       /\ EffectiveDeadline(last.out[k][1]) # EffectiveDeadline(last.out[i][1])

\* The insertions the claim names: an inbound response, an inbound
\* guaranteed-response request, an outbound guaranteed response.
InsertedWithoutDeadline(h) ==
  \/ h.via = "insert_inbound" /\ h.msg.kind = "Response"
  \/ h.via = "insert_inbound" /\ h.msg.deadline = NO_DEADLINE
  \/ h.via = "insert_outbound_response" /\ h.msg.deadline = NO_DEADLINE

\* C9: a message inserted with effective deadline NO_DEADLINE is never
\* returned by expire_messages.
C9_NoDeadlineNeverExpired ==
  last.op = "expire_messages" =>
    \A i \in DOMAIN last.out :
      /\ hist[last.out[i][1]].eff # NO_DEADLINE
      /\ ~InsertedWithoutDeadline(hist[last.out[i][1]])

\* expire_messages returned a message while an inbound response whose own
\* deadline is before now stays in the store.
C9_Witness ==
  /\ last.op = "expire_messages" /\ last.out # <<>>
  /\ \E id \in DOMAIN messages :
       /\ hist[id].via = "insert_inbound"
       /\ messages[id].kind = "Response"
       /\ messages[id].deadline # NO_DEADLINE
       /\ messages[id].deadline < CoarseTime_floor(last.now)

\* C10: every message shed_largest_message returns is best-effort and its
\* id has the best-effort class bit set.
C10_ShedOnlyBestEffort ==
  (last.op = "shed_largest_message" /\ last.msg # None) =>
    /\ unwrap(last.msg).deadline # NO_DEADLINE
    /\ is_best_effort(last.id)

\* A message was shed while a larger guaranteed-response message stays in the
\* store.
C10_Witness ==
  /\ last.op = "shed_largest_message" /\ last.msg # None
  /\ \E id \in DOMAIN messages :
       /\ messages[id].deadline = NO_DEADLINE
       /\ messages[id].size > unwrap(last.msg).size

\* The message is best-effort.
BestEffort(msg) == msg.deadline # NO_DEADLINE

\* C11: shed_largest_message removes and returns a best-effort message of the
\* store whose size is maximal among the best-effort messages of the store,
\* returns nothing iff the store holds no best-effort message, and of two
\* calls with no operation in between the second returns no larger a message.
C11_ShedLargestFirst ==
  \A s \in ShedLargestMessageSteps :
    /\ s.last.msg # None =>
         /\ get(Pool, s.last.id) = s.last.msg
         /\ ~contains_key(s.messages, s.last.id)
         /\ BestEffort(unwrap(s.last.msg))
         /\ \A id \in DOMAIN messages :
              BestEffort(messages[id]) => messages[id].size <= unwrap(s.last.msg).size
    /\ s.last.msg = None => \A id \in DOMAIN messages : ~BestEffort(messages[id])
    /\ (last.op = "shed_largest_message" /\ last.msg # None /\ s.last.msg # None)
         => unwrap(s.last.msg).size <= unwrap(last.msg).size

\* A message was shed while a smaller best-effort message with a smaller id
\* stays in the store.
C11_Witness ==
  /\ last.op = "shed_largest_message" /\ last.msg # None
  /\ \E id \in DOMAIN messages :
       /\ BestEffort(messages[id])
       /\ messages[id].size < unwrap(last.msg).size
       /\ id < last.id

\* C12: when has_expired_deadlines(now) is false, expire_messages(now) on the
\* same state returns an empty vector and leaves the pool as it was.
C12_NoExpiredDeadlinesNoExpiry ==
  \A s \in ExpireMessagesSteps :
    ~has_expired_deadlines(Pool, s.last.now)
      => (s.last.out = <<>> /\ PoolOf(s) = Pool)

\* The entries pushed onto the deadline queue so far.
DeadlinePushes == {id \in DOMAIN hist : hist[id].eff # NO_DEADLINE}

\* expire_messages returned nothing from a deadline queue of which no entry
\* has been popped or pruned so far and whose head is not before now; the
\* head is stale, so at a later time has_expired_deadlines is true and
\* expire_messages returns an empty vector.
C12_Witness ==
  /\ last.op = "expire_messages" /\ last.out = <<>>
  /\ deadline_queue # <<>>
  /\ Len(deadline_queue) = Cardinality(DeadlinePushes)
  /\ ~has_expired_deadlines(Pool, last.now)
  /\ \E now \in ExpireNows :
       /\ has_expired_deadlines(Pool, now)
       /\ expire_messages(Pool, now).ret = <<>>

\* expire_messages returned the message under id in the step.
Expired(id, out) == \E i \in DOMAIN out : out[i][1] = id

\* C13: expire_messages(now) returns a message only if its effective
\* deadline is before floor(now); a message whose effective deadline is
\* floor(now) or later stays in the store.
C13_ExpiryBoundaryStrict ==
  \A s \in ExpireMessagesSteps :
    /\ \A i \in DOMAIN s.last.out :
         EffectiveDeadline(s.last.out[i][1]) < CoarseTime_floor(s.last.now)
    /\ \A id \in DOMAIN messages :
         EffectiveDeadline(id) >= CoarseTime_floor(s.last.now)
           => get(PoolOf(s), id) = get(Pool, id)

\* expire_messages returned a message, and a message whose effective deadline
\* equals floor(now) stays in the store.
C13_Witness ==
  /\ last.op = "expire_messages" /\ last.out # <<>>
  /\ \E id \in DOMAIN messages : EffectiveDeadline(id) = CoarseTime_floor(last.now)

\* n seconds, in units of fine time.
Seconds(n) == n * TicksPerSec

\* The guaranteed-response requests in the store that insert_outbound_request
\* inserted.
OutboundGuaranteedRequests ==
  {id \in DOMAIN messages :
     hist[id].via = "insert_outbound_request" /\ ~BestEffort(messages[id])}

\* C14: insert_outbound_request(request, now) gives a guaranteed-response
\* request the effective deadline floor(now + 300 s) and a best-effort request
\* its own deadline; the guaranteed-response request is not returned by
\* expire_messages(now + 299 s) and, if still in the store, is returned by
\* expire_messages(now + 301 s).
C14_OutboundRequestDeadline ==
  /\ \A s \in InsertOutboundRequestSteps :
       ~s.panicked =>
         s.hist[s.last.id].eff =
           IF BestEffort(unwrap(s.last.msg))
           THEN unwrap(s.last.msg).deadline
           ELSE CoarseTime_floor(s.last.now + Seconds(300))
  /\ \A s \in ExpireMessagesSteps :
       \A id \in OutboundGuaranteedRequests :
         /\ s.last.now = hist[id].at + Seconds(299) => contains_key(s.messages, id)
         /\ s.last.now = hist[id].at + Seconds(301)
              => (Expired(id, s.last.out) /\ ~contains_key(s.messages, id))

\* expire_messages(now + 301 s) returned a guaranteed-response request that
\* insert_outbound_request inserted at now, and a best-effort request that
\* insert_outbound_request inserted.
C14_Witness ==
  /\ last.op = "expire_messages"
  /\ \E i, j \in DOMAIN last.out :
       /\ hist[last.out[i][1]].via = "insert_outbound_request"
       /\ ~BestEffort(last.out[i][2])
       /\ last.now = hist[last.out[i][1]].at + Seconds(301)
       /\ hist[last.out[j][1]].via = "insert_outbound_request"
       /\ BestEffort(last.out[j][2])

\* C15 as stated: a guaranteed-response request that insert_outbound_request
\* inserted at time t is not returned by expire_messages(now) for any
\* now < t + 299 s and is returned for every now >= t + 300 s.
C15_ExpiresBetween299And300 ==
  \A s \in ExpireMessagesSteps :
    \A id \in OutboundGuaranteedRequests :
      /\ s.last.now < hist[id].at + Seconds(299) => contains_key(s.messages, id)
      /\ s.last.now >= hist[id].at + Seconds(300) => Expired(id, s.last.out)

\* C15 amended: a guaranteed-response request that insert_outbound_request
\* inserted at time t is not returned by expire_messages(now) for any
\* now <= t + 300 s and is returned for every now >= t + 301 s.
C15_ExpiresBetween300And301 ==
  \A s \in ExpireMessagesSteps :
    \A id \in OutboundGuaranteedRequests :
      /\ s.last.now <= hist[id].at + Seconds(300)
           => (contains_key(s.messages, id) /\ ~Expired(id, s.last.out))
      /\ s.last.now >= hist[id].at + Seconds(301) => Expired(id, s.last.out)

\* expire_messages(t + 300 s) returned a message and left in the store a
\* guaranteed-response request that insert_outbound_request inserted at t.
C15_Witness ==
  /\ last.op = "expire_messages" /\ last.out # <<>>
  /\ \E id \in OutboundGuaranteedRequests : last.now = hist[id].at + Seconds(300)

\* C16: for every message m in the store under id i, is_response(i) iff m is
\* a response, and is_best_effort(i) iff m.deadline is not NO_DEADLINE.
C16_IdFlagsMatchMessage ==
  \A id \in DOMAIN messages :
    /\ is_response(id) <=> messages[id].kind = "Response"
    /\ is_best_effort(id) <=> BestEffort(messages[id])

\* The store holds a response stored through replace_inbound_timeout_response,
\* a guaranteed-response request and a best-effort request.
C16_Witness ==
  /\ \E id \in DOMAIN messages : hist[id].via = "replace_inbound_timeout_response"
  /\ \E id \in DOMAIN messages :
       messages[id].kind = "Request" /\ ~BestEffort(messages[id])
  /\ \E id \in DOMAIN messages :
       messages[id].kind = "Request" /\ BestEffort(messages[id])

\* The queue holds an entry of id.
InQueue(queue, id) == \E i \in DOMAIN queue : queue[i][2] = id

StoreOps == InsertOps \cup {"replace_inbound_timeout_response"}

\* The states one operation that stores a message can lead to.
StoreSteps ==
  InsertInboundSteps \cup InsertOutboundRequestSteps \cup InsertOutboundResponseSteps
    \cup ReplaceInboundTimeoutResponseSteps

\* The operation stored a response in an input queue.
InboundResponse(op, msg) ==
  op \in {"insert_inbound", "replace_inbound_timeout_response"} /\ msg.kind = "Response"

\* C17: an operation that stores a message pushes it onto the deadline queue
\* iff the message is best-effort and not an inbound response, or is a
\* guaranteed-response request stored by insert_outbound_request; a
\* guaranteed-response message is pushed by insert_outbound_request only, and
\* an inbound guaranteed response is pushed onto neither queue.
C17_DeadlineQueueMembership ==
  \A s \in StoreSteps :
    ~s.panicked =>
      LET op == s.last.op
          msg == unwrap(s.last.msg)
          id == s.last.id
          pushed == InQueue(s.deadline_queue, id)
      IN  /\ ~InQueue(deadline_queue, id)
          /\ pushed <=> \/ BestEffort(msg) /\ ~InboundResponse(op, msg)
                        \/ op = "insert_outbound_request" /\ ~BestEffort(msg)
          /\ Len(s.deadline_queue) = Len(deadline_queue) + (IF pushed THEN 1 ELSE 0)
          /\ (pushed /\ ~BestEffort(msg)) => op = "insert_outbound_request"
          /\ (InboundResponse(op, msg) /\ ~BestEffort(msg))
               => (~pushed /\ ~InQueue(s.size_queue, id))

\* insert_outbound_request pushed a guaranteed-response request onto the
\* deadline queue while the store holds an inbound guaranteed response that
\* is in neither queue.
C17_Witness ==
  /\ last.op = "insert_outbound_request" /\ ~BestEffort(unwrap(last.msg))
  /\ InQueue(deadline_queue, last.id)
  /\ \E id \in DOMAIN messages :
       /\ hist[id].via = "insert_inbound"
       /\ messages[id].kind = "Response" /\ ~BestEffort(messages[id])
       /\ ~InQueue(deadline_queue, id) /\ ~InQueue(size_queue, id)

\* C18: each entry (d, i) of the deadline queue has d # NO_DEADLINE and d the
\* effective deadline with which the message under i was inserted; each
\* entry (s, i) of the size queue has a best-effort id i and s the size of
\* the message inserted under i.
C18_QueueEntriesMatchInsertion ==
  /\ \A k \in DOMAIN deadline_queue :
       LET d == deadline_queue[k][1]
           i == deadline_queue[k][2]
       IN  d # NO_DEADLINE /\ i \in DOMAIN hist /\ d = EffectiveDeadline(i)
  /\ \A k \in DOMAIN size_queue :
       LET s == size_queue[k][1]
           i == size_queue[k][2]
       IN  is_best_effort(i) /\ i \in DOMAIN hist /\ s = hist[i].msg.size

\* Both queues hold an entry of a message that left the store, and the size
\* queue holds the entry of a response stored through
\* replace_inbound_timeout_response.
C18_Witness ==
  /\ \E id \in removed : InQueue(deadline_queue, id) /\ InQueue(size_queue, id)
  /\ \E id \in DOMAIN messages :
       hist[id].via = "replace_inbound_timeout_response" /\ InQueue(size_queue, id)

\* C19: a guaranteed-response message that expire_messages returns is an
\* outbound request: its id has is_outbound true and is_response false.
C19_GuaranteedExpiredOnlyOutboundRequest ==
  last.op = "expire_messages" =>
    \A i \in DOMAIN last.out :
      ~BestEffort(last.out[i][2])
        => /\ is_outbound(last.out[i][1]) /\ ~is_response(last.out[i][1])
           /\ last.out[i][2].kind = "Request"
           /\ hist[last.out[i][1]].via = "insert_outbound_request"

\* expire_messages returned a guaranteed-response request and left an inbound
\* guaranteed-response request and an outbound guaranteed response in the
\* store.
C19_Witness ==
  /\ last.op = "expire_messages"
  /\ \E i \in DOMAIN last.out : ~BestEffort(last.out[i][2])
  /\ \E id \in DOMAIN messages :
       hist[id].via = "insert_inbound" /\ ~BestEffort(messages[id])
  /\ \E id \in DOMAIN messages :
       hist[id].via = "insert_outbound_response" /\ ~BestEffort(messages[id])

\* C20: insert_inbound_timeout_response returns an id with the flags
\* Response, Inbound, BestEffort and changes the id counter only: the store,
\* both queues and the stats stay as they were; get of a placeholder's id
\* returns nothing as long as the placeholder is not fulfilled.
C20_PlaceholderChangesCounterOnly ==
  /\ \A placeholder \in placeholders : get(Pool, placeholder) = None
  /\ \A s \in InsertInboundTimeoutResponseSteps :
       /\ is_response(s.last.id) /\ ~is_outbound(s.last.id)
       /\ is_best_effort(s.last.id)
       /\ s.messages = messages
       /\ s.deadline_queue = deadline_queue
       /\ s.size_queue = size_queue
       /\ s.memory_usage_stats = memory_usage_stats
       /\ s.next_message_id_generator = next_message_id_generator + 1
       /\ ~contains_key(s.messages, s.last.id)

\* A placeholder was handed out while the store and both queues are not
\* empty.
C20_Witness ==
  /\ last.op = "insert_inbound_timeout_response"
  /\ last.id \in placeholders
  /\ messages # EmptyMap /\ deadline_queue # <<>> /\ size_queue # <<>>

\* The messages in the store that replace_inbound_timeout_response stored.
Fulfilled ==
  {id \in DOMAIN messages : hist[id].via = "replace_inbound_timeout_response"}

\* C21: replace_inbound_timeout_response with a best-effort response stores
\* the response under the placeholder's id, whatever was inserted since the
\* placeholder was reserved, pushes (size, id) onto the size queue and leaves
\* the deadline queue as it was; the response has a size queue entry and no
\* deadline queue entry as long as it is stored, and expire_messages never
\* returns it.
C21_FulfilledPlaceholder ==
  /\ \A id \in Fulfilled :
       /\ \E k \in DOMAIN size_queue : size_queue[k] = <<messages[id].size, id>>
       /\ ~InQueue(deadline_queue, id)
  /\ last.op = "expire_messages" =>
       \A i \in DOMAIN last.out :
         hist[last.out[i][1]].via # "replace_inbound_timeout_response"
  /\ \A s \in ReplaceInboundTimeoutResponseSteps :
       (BestEffort(unwrap(s.last.msg)) /\ unwrap(s.last.msg).kind = "Response")
         => /\ ~s.panicked
            /\ get(PoolOf(s), s.last.id) = s.last.msg
            /\ \E k \in DOMAIN s.size_queue :
                 s.size_queue[k] = <<unwrap(s.last.msg).size, s.last.id>>
            /\ Len(s.size_queue) = Len(size_queue) + 1
            /\ s.deadline_queue = deadline_queue

\* A placeholder was fulfilled after a message with a deadline was inserted
\* since the placeholder was reserved; both are in the store.
C21_Witness ==
  /\ last.op = "replace_inbound_timeout_response" /\ ~panicked
  /\ last.id \in Fulfilled
  /\ \E id \in DOMAIN messages : id > last.id /\ InQueue(deadline_queue, id)

\* C22: replace_inbound_timeout_response panics when the message is a request
\* or a response with deadline NO_DEADLINE, and leaves the store, the stats,
\* both queues and the id counter as they were.
C22_ReplaceRejectsBeforeMutation ==
  \A s \in ReplaceInboundTimeoutResponseSteps :
    ~(BestEffort(unwrap(s.last.msg)) /\ unwrap(s.last.msg).kind = "Response")
      => (s.panicked /\ PoolOf(s) = Pool)

\* replace_inbound_timeout_response panicked on a guaranteed response while
\* the store and the size queue are not empty.
C22_Witness ==
  /\ last.op = "replace_inbound_timeout_response" /\ panicked
  /\ unwrap(last.msg).kind = "Response" /\ ~BestEffort(unwrap(last.msg))
  /\ messages # EmptyMap /\ size_queue # <<>>

\* C23: get_request(id) panics for every id whose kind bit says Response and
\* get_response(id) for every id whose kind bit says Request, in the store or
\* not; with a matching kind bit both return what get(id) returns.
C23_GetChecksKindBit ==
  /\ \A id \in AllIds :
       /\ get_request(Pool, id).panic <=> is_response(id)
       /\ get_response(Pool, id).panic <=> ~is_response(id)
       /\ ~is_response(id) => get_request(Pool, id).ret = get(Pool, id)
       /\ is_response(id) => get_response(Pool, id).ret = get(Pool, id)
  /\ last.op = "get_request" =>
       /\ panicked <=> is_response(last.id)
       /\ ~panicked => last.msg = get(Pool, last.id)
  /\ last.op = "get_response" =>
       /\ panicked <=> ~is_response(last.id)
       /\ ~panicked => last.msg = get(Pool, last.id)

\* get_response panicked on the id of a request that is in the store, after
\* a response was removed from the store.
C23_Witness ==
  /\ last.op = "get_response" /\ panicked
  /\ get(Pool, last.id) # None
  /\ \E id \in removed : is_response(id)

\* C24: expire_messages on an empty deadline queue returns an empty vector
\* and shed_largest_message on an empty size queue returns nothing; neither
\* panics, neither changes the pool.
C24_EmptyQueuesObserved ==
  /\ \A s \in ExpireMessagesSteps :
       deadline_queue = <<>>
         => (s.last.out = <<>> /\ ~s.panicked /\ PoolOf(s) = Pool)
  /\ \A s \in ShedLargestMessageSteps :
       size_queue = <<>>
         => (s.last.msg = None /\ ~s.panicked /\ PoolOf(s) = Pool)

\* shed_largest_message returned nothing from a pool that never stored a
\* best-effort message, with a message in the store and an entry in the
\* deadline queue.
C24_Witness ==
  /\ last.op = "shed_largest_message" /\ last.msg = None
  /\ \A id \in DOMAIN hist : ~BestEffort(hist[id].msg)
  /\ size_queue = <<>>
  /\ messages # EmptyMap /\ deadline_queue # <<>>

\* The quadruple (best_effort_message_bytes, guaranteed_responses_size_bytes,
\* oversized_guaranteed_requests_extra_bytes, size_bytes).
Quadruple(a, b, c, d) ==
  [best_effort_message_bytes |-> a,
   guaranteed_responses_size_bytes |-> b,
   oversized_guaranteed_requests_extra_bytes |-> c,
   size_bytes |-> d]

\* The four-case table of the claim.
StatsTable(msg) ==
  IF BestEffort(msg)
  THEN Quadruple(msg.size, 0, 0, msg.size)
  ELSE IF msg.kind = "Response"
       THEN Quadruple(0, msg.size, 0, msg.size)
       ELSE Quadruple(0, 0,
                      IF msg.size - MAX_RESPONSE_COUNT_BYTES > 0
                      THEN msg.size - MAX_RESPONSE_COUNT_BYTES ELSE 0,
                      msg.size)

\* Messages of every size from zero to past MAX_RESPONSE_COUNT_BYTES.
StatsInputs ==
  [kind : Kinds, deadline : 0..MaxDeadline,
   size : 0..(MAX_RESPONSE_COUNT_BYTES + MaxSize)]

\* C25: stats_delta of a message is the entry of the four-case table; an
\* operation that stores a message adds that entry to the stats and take
\* subtracts it.
C25_StatsDeltaTable ==
  /\ \A msg \in StatsInputs : stats_delta(msg) = StatsTable(msg)
  /\ \A s \in StoreSteps :
       ~s.panicked
         => s.memory_usage_stats
              = add_assign(memory_usage_stats, StatsTable(unwrap(s.last.msg)))
  /\ \A s \in TakeSteps :
       s.last.msg # None
         => s.memory_usage_stats
              = sub_assign(memory_usage_stats, StatsTable(unwrap(s.last.msg)))

\* A guaranteed-response request of MAX_RESPONSE_COUNT_BYTES + 1 bytes was
\* inserted after one of MAX_RESPONSE_COUNT_BYTES bytes: one extra byte.
C25_Witness ==
  /\ last.op \in InsertOps
  /\ unwrap(last.msg) =
       [kind |-> "Request", deadline |-> NO_DEADLINE,
        size |-> MAX_RESPONSE_COUNT_BYTES + 1]
  /\ \E id \in DOMAIN messages :
       messages[id] = [kind |-> "Request", deadline |-> NO_DEADLINE,
                       size |-> MAX_RESPONSE_COUNT_BYTES]
  /\ memory_usage_stats.oversized_guaranteed_requests_extra_bytes = 1

\* C26: take(id) of an id that is not in the store returns nothing and leaves
\* the store, the stats, the id counter and both queues as they were.
C26_TakeAbsentChangesNothing ==
  \A s \in TakeSteps :
    ~contains_key(messages, s.last.id) => (s.last.msg = None /\ PoolOf(s) = Pool)

\* take returned nothing for an id that was removed before and whose entries
\* are still in both queues.
C26_Witness ==
  /\ last.op = "take" /\ last.msg = None
  /\ last.id \in removed
  /\ InQueue(deadline_queue, last.id) /\ InQueue(size_queue, last.id)

\* The entries of a queue, and those whose id is in the store.
Entries(queue) == {queue[k] : k \in DOMAIN queue}

LiveEntries(queue, store) == {e \in Entries(queue) : contains_key(store, e[2])}

\* What take leaves of a queue: the queue as it was, or, when it is longer
\* than 2 * |store| + 2 after the removal, its entries whose id is in the store.
QueueAfterTake(before, after, store) ==
  IF Len(before) > 2 * Cardinality(DOMAIN store) + 2
  THEN /\ Entries(after) = LiveEntries(before, store)
       /\ Len(after) = Cardinality(LiveEntries(before, store))
  ELSE after = before

\* C27: take(id) of a stored message leaves each queue exactly as it was, the
\* entries of id included, unless the queue is longer than 2 * |store| + 2
\* after the removal: then the queue holds exactly its entries whose id is
\* still in the store.
C27_TakeLeavesEntriesStale ==
  \A s \in TakeSteps :
    s.last.msg # None
      => /\ QueueAfterTake(deadline_queue, s.deadline_queue, s.messages)
         /\ QueueAfterTake(size_queue, s.size_queue, s.messages)

\* take removed the last message of the store: the size queue, of three
\* entries, was pruned and the deadline queue keeps its stale entries.
C27_Witness ==
  /\ last.op = "take" /\ last.msg # None /\ BestEffort(unwrap(last.msg))
  /\ messages = EmptyMap
  /\ size_queue = <<>>
  /\ Cardinality({id \in DOMAIN hist : BestEffort(hist[id].msg)}) > 2
  /\ deadline_queue # <<>>

\* The entries of a queue whose id is no longer in the store.
StaleEntries(queue) == Entries(queue) \ LiveEntries(queue, messages)

\* C28: after a take that removes a message, in each queue the entries whose
\* id is no longer in the store are at most half of the queue.
C28_StaleAtMostHalf ==
  (last.op = "take" /\ last.msg # None) =>
    /\ 2 * Cardinality(StaleEntries(deadline_queue)) <= Len(deadline_queue)
    /\ 2 * Cardinality(StaleEntries(size_queue)) <= Len(size_queue)

\* The pool with no stale entry in its queues, all else the same.
Pruned(self) ==
  [self EXCEPT
     !.deadline_queue = heap_retain(TRUE, @, DOMAIN self.messages),
     !.size_queue = heap_retain(FALSE, @, DOMAIN self.messages)]

\* C30: two pools compare equal iff their stores, stats, id counters and
\* queues, as sequences in heap-internal order, are equal: among the pool,
\* the pool without its stale entries and the empty pool, PoolEq holds of two
\* exactly when all five fields are equal.
C30_PoolEqComparesAllFields ==
  \A a, b \in {Pool, Pruned(Pool), MessagePool_default} :
    PoolEq(a, b) <=>
      /\ a.messages = b.messages
      /\ a.memory_usage_stats = b.memory_usage_stats
      /\ a.next_message_id_generator = b.next_message_id_generator
      /\ a.deadline_queue = b.deadline_queue
      /\ a.size_queue = b.size_queue

\* The pool and the pool without its stale entries have the same store,
\* stats and size queue and compare unequal.
C30_Witness ==
  /\ messages # EmptyMap
  /\ Pruned(Pool).size_queue = size_queue /\ size_queue # <<>>
  /\ Pruned(Pool).deadline_queue # deadline_queue
  /\ ~PoolEq(Pool, Pruned(Pool))

\* The least deadline among the entries of the deadline queue.
LeastDeadline ==
  CHOOSE d \in {e[1] : e \in Entries(deadline_queue)} :
    \A e \in Entries(deadline_queue) : d <= e[1]

\* C29: has_expired_deadlines(now) is true iff the deadline queue is not
\* empty and the deadline of its top entry, the least in the queue, is
\* before floor(now), the entry's id in the store or not; the pool stays as
\* it was.
C29_HasExpiredDeadlinesPeeksTop ==
  /\ \A now \in ExpireNows :
       has_expired_deadlines(Pool, now)
         <=> (deadline_queue # <<>> /\ LeastDeadline < CoarseTime_floor(now))
  /\ \A s \in HasExpiredDeadlinesSteps :
       /\ s.last.out = <<deadline_queue # <<>>
                           /\ LeastDeadline < CoarseTime_floor(s.last.now)>>
       /\ PoolOf(s) = Pool
       /\ ~s.panicked

\* has_expired_deadlines answered true on a top entry whose message left the
\* store, with a later deadline below it in the queue.
C29_Witness ==
  /\ last.op = "has_expired_deadlines" /\ last.out = <<TRUE>>
  /\ ~contains_key(messages, deadline_queue[1][2])
  /\ \E k \in DOMAIN deadline_queue :
       /\ deadline_queue[k][1] >= CoarseTime_floor(last.now)
       /\ contains_key(messages, deadline_queue[k][2])

\* How many entries of a queue carry the id.
EntryCount(queue, id) == Cardinality({k \in DOMAIN queue : queue[k][2] = id})

\* C31: every stored message that was inserted with a deadline has exactly one
\* entry in the deadline queue, and every stored best-effort message has
\* exactly one entry in the size queue: neither trimming nor the pops of
\* expire_messages and shed_largest_message lose the entry of a message that
\* stays in the store.
C31_LiveEntriesExactlyOnce ==
  \A id \in DOMAIN messages :
    /\ EffectiveDeadline(id) # NO_DEADLINE => EntryCount(deadline_queue, id) = 1
    /\ BestEffort(messages[id]) => EntryCount(size_queue, id) = 1

\* A take has just pruned both queues (the entries of the message it removed
\* are gone, and no stale entry is left) while another message with a
\* deadline stays stored.
C31_Witness ==
  /\ last.op = "take" /\ last.msg # None
  /\ BestEffort(unwrap(last.msg))
  /\ ~InQueue(deadline_queue, last.id) /\ ~InQueue(size_queue, last.id)
  /\ StaleEntries(deadline_queue) = {} /\ StaleEntries(size_queue) = {}
  /\ \E id \in DOMAIN messages :
       EffectiveDeadline(id) # NO_DEADLINE /\ BestEffort(messages[id])

\* C32: after expire_messages(now) no stored message has a deadline before
\* floor(now) (a message without deadline has none to compare),
\* has_expired_deadlines(now) is false, and expire_messages(now) called again
\* returns an empty vector and leaves the pool as it is.
C32_ExpiryComplete ==
  last.op = "expire_messages" =>
    /\ \A id \in DOMAIN messages :
         EffectiveDeadline(id) # NO_DEADLINE =>
           EffectiveDeadline(id) >= CoarseTime_floor(last.now)
    /\ ~has_expired_deadlines(Pool, last.now)
    /\ expire_messages(Pool, last.now).ret = <<>>
    /\ expire_messages(Pool, last.now).self = Pool

\* expire_messages returned two messages and left a message with a later
\* deadline, and its entry, behind.
C32_Witness ==
  /\ last.op = "expire_messages" /\ Len(last.out) >= 2
  /\ deadline_queue # <<>>
  /\ \E id \in DOMAIN messages : EffectiveDeadline(id) >= CoarseTime_floor(last.now)

\* C33: expire_messages returns every stored message whose deadline is before
\* floor(now), each once and with the id it is stored under; the returned
\* messages leave the store, len() drops by their number, and every other
\* message stays under its id as it was.
C33_ExpireReturnsAndRemoves ==
  \A s \in ExpireMessagesSteps :
    LET out == s.last.out
        ids == {out[i][1] : i \in DOMAIN out}
    IN  /\ \A i, j \in DOMAIN out : i # j => out[i][1] # out[j][1]
        /\ \A i \in DOMAIN out :
             /\ contains_key(messages, out[i][1])
             /\ out[i][2] = messages[out[i][1]]
        /\ ids = {id \in DOMAIN messages :
                    /\ EffectiveDeadline(id) # NO_DEADLINE
                    /\ EffectiveDeadline(id) < CoarseTime_floor(s.last.now)}
        /\ DOMAIN s.messages = DOMAIN messages \ ids
        /\ len(PoolOf(s)) = len(Pool) - Len(out)
        /\ \A id \in DOMAIN s.messages : s.messages[id] = messages[id]

\* expire_messages returned an outbound guaranteed request and a best-effort
\* message and left another message in the store.
C33_Witness ==
  /\ last.op = "expire_messages"
  /\ \E i, j \in DOMAIN last.out :
       /\ last.out[i][2].deadline = NO_DEADLINE
       /\ last.out[j][2].deadline # NO_DEADLINE
  /\ messages # EmptyMap

\* The entry (size, id) is popped from the size queue before the entry of shed.
PoppedBefore(e, shed) == e[1] > shed[1] \/ (e[1] = shed[1] /\ e[2] > shed[2])

\* C34: shed_largest_message returns nothing iff the store holds no
\* best-effort message; otherwise it returns a stored best-effort message and
\* removes that message and no other.  The entry of the returned message
\* and the stale entries ahead of it leave the size queue (all entries, when
\* nothing is returned), and no entry of a message that stays stored does.
C34_ShedRemovesExactlyOne ==
  \A s \in ShedLargestMessageSteps :
    /\ s.last.msg = None <=> \A id \in DOMAIN messages : ~BestEffort(messages[id])
    /\ s.last.msg = None => s.messages = messages /\ s.size_queue = <<>>
    /\ s.last.msg # None =>
         LET shed == <<unwrap(s.last.msg).size, s.last.id>>
         IN  /\ contains_key(messages, s.last.id)
             /\ s.messages = map_remove(messages, s.last.id)
             /\ shed \in Entries(size_queue) \ Entries(s.size_queue)
             /\ \A e \in Entries(size_queue) :
                  PoppedBefore(e, shed) =>
                    ~contains_key(messages, e[2]) /\ e \notin Entries(s.size_queue)
             /\ \A e \in Entries(size_queue) \ Entries(s.size_queue) :
                  e = shed \/ ~contains_key(messages, e[2])
             /\ Entries(s.size_queue) \subseteq Entries(size_queue)

\* The pool in which shed_largest_message meets a stale entry at the top of
\* the size queue, pops it and one more entry, and returns a message.
C34_Witness ==
  /\ ~panicked
  /\ heap_peek(size_queue) # None
  /\ ~contains_key(messages, unwrap(heap_peek(size_queue))[2])
  /\ shed_largest_message(Pool).ret # None
  /\ shed_largest_message(Pool).n >= 2
  /\ \E id \in DOMAIN messages : ~BestEffort(messages[id])

\* C35: of the stored best-effort messages that share the maximal size,
\* shed_largest_message returns the one with the largest id.
C35_ShedTiesLargestId ==
  \A s \in ShedLargestMessageSteps :
    s.last.msg # None =>
      \A id \in DOMAIN messages :
        BestEffort(messages[id]) =>
          \/ messages[id].size < unwrap(s.last.msg).size
          \/ messages[id].size = unwrap(s.last.msg).size /\ id <= s.last.id

\* A message was shed while a best-effort message of the same size and with
\* a smaller id stays in the store.
C35_Witness ==
  /\ last.op = "shed_largest_message" /\ last.msg # None
  /\ \E id \in DOMAIN messages :
       /\ BestEffort(messages[id])
       /\ messages[id].size = unwrap(last.msg).size
       /\ id < last.id

\* The generation counter of an id: the bits above the flags.
Generation(id) == id \div Pow2(BITMASK_LEN)

\* C36: no id occurs twice in the deadline queue or twice in the size queue,
\* and the generation counter of every id in the store or in a queue is below
\* next_message_id_generator.
C36_QueueIdsUniqueAndIssued ==
  /\ \A i, j \in DOMAIN deadline_queue :
       i # j => deadline_queue[i][2] # deadline_queue[j][2]
  /\ \A i, j \in DOMAIN size_queue :
       i # j => size_queue[i][2] # size_queue[j][2]
  /\ \A id \in DOMAIN messages : Generation(id) < next_message_id_generator
  /\ \A e \in Entries(deadline_queue) \cup Entries(size_queue) :
       Generation(e[2]) < next_message_id_generator

\* Both queues hold several entries, stale ones among them, next to a
\* stored message that a placeholder was replaced by.
C36_Witness ==
  /\ Len(deadline_queue) >= 2 /\ Len(size_queue) >= 2
  /\ StaleEntries(deadline_queue) # {} /\ StaleEntries(size_queue) # {}
  /\ \E id \in DOMAIN messages : hist[id].via = "replace_inbound_timeout_response"

\* C37: the id of a stored message has the outbound bit iff the message came
\* in through insert_outbound_request or insert_outbound_response, and does
\* not have it iff it came in through insert_inbound or
\* replace_inbound_timeout_response.
C37_ContextBitMatchesInsertion ==
  \A id \in DOMAIN messages :
    /\ is_outbound(id) <=>
         hist[id].via \in {"insert_outbound_request", "insert_outbound_response"}
    /\ ~is_outbound(id) <=>
         hist[id].via \in {"insert_inbound", "replace_inbound_timeout_response"}

\* The store holds an outbound request, an outbound response and the message
\* that replaced a placeholder.
C37_Witness ==
  \E a, b, c \in DOMAIN messages :
    /\ hist[a].via = "insert_outbound_request"
    /\ hist[b].via = "insert_outbound_response"
    /\ hist[c].via = "replace_inbound_timeout_response"

\* The four counters of MemoryUsageStats.
StatsFields == DOMAIN MemoryUsageStats_default

\* C38: the subtraction in take never takes more from a counter than the
\* counter holds (the counters are unsigned: no counter is ever negative);
\* with an empty store the four counters are zero; and in every state
\* best_effort_message_bytes + guaranteed_responses_size_bytes <= size_bytes.
C38_StatsNeverUnderflow ==
  /\ \A f \in StatsFields : memory_usage_stats[f] >= 0
  /\ messages = EmptyMap => memory_usage_stats = MemoryUsageStats_default
  /\ memory_usage_stats.best_effort_message_bytes
       + memory_usage_stats.guaranteed_responses_size_bytes
         <= memory_usage_stats.size_bytes
  /\ \A s \in TakeSteps :
       s.last.msg # None =>
         LET delta == stats_delta(unwrap(s.last.msg))
         IN  /\ \A f \in StatsFields : memory_usage_stats[f] >= delta[f]
             /\ s.memory_usage_stats = sub_assign(memory_usage_stats, delta)

\* A take has brought best_effort_message_bytes down to zero while an
\* oversized guaranteed request stays stored.
C38_Witness ==
  /\ last.op = "take" /\ last.msg # None
  /\ BestEffort(unwrap(last.msg))
  /\ memory_usage_stats.best_effort_message_bytes = 0
  /\ memory_usage_stats.oversized_guaranteed_requests_extra_bytes > 0

\* C39: expire_messages and shed_largest_message terminate: called in any
\* reachable pool, each pops at most as many entries as its queue holds at
\* the call, and when it returns the queue is shorter by at least the number
\* of its iterations (an iteration pops one entry and pushes none; the take
\* in it may prune more), the other queue being no longer than before.
C39_LoopsBoundedByQueueLength ==
  /\ \A now \in ExpireNows :
       LET r == expire_messages(Pool, now)
       IN  /\ r.n <= Len(deadline_queue)
           /\ Len(r.self.deadline_queue) <= Len(deadline_queue) - r.n
           /\ Len(r.self.size_queue) <= Len(size_queue)
  /\ LET r == shed_largest_message(Pool)
     IN  /\ r.n <= Len(size_queue)
         /\ Len(r.self.size_queue) <= Len(size_queue) - r.n
         /\ Len(r.self.deadline_queue) <= Len(deadline_queue)

\* A pool in which expire_messages runs through the whole deadline queue,
\* four entries or more and stale ones among them, and in which
\* shed_largest_message pops stale entries before it finds a message.
C39_Witness ==
  /\ ~panicked
  /\ \E now \in ExpireNows :
       LET r == expire_messages(Pool, now)
       IN  /\ r.n = Len(deadline_queue) /\ r.n >= 4
           /\ Len(r.ret) < r.n /\ Len(r.ret) >= 1
  /\ LET r == shed_largest_message(Pool)
     IN  r.n >= 3 /\ r.ret # None

====
